---- MODULE Spec2Model ----
(***************************************************************************)
(* Model of the SmarterStarts backend (src/app.py): the two POST handlers, *)
(* the recommendation generator with its tool-name extraction, and the     *)
(* three sinks (Firestore collection, Google Sheet, admin e-mail).         *)
(*                                                                         *)
(* A text is a sequence of characters; a character is a one-element token  *)
(* written as a string.  The two Unicode dashes of the source's regular    *)
(* expression are written "ndash" (U+2013) and "mdash" (U+2014).           *)
(***************************************************************************)
EXTENDS Naturals, Integers, Sequences, FiniteSets, TLC

VARIABLES
    req,        \* per request: the handler's position and its local variables
    received,   \* number of requests received so far (also the logical clock)
    collection, \* documents of the Firestore collection smarterstarts_sessions
    worksheet,  \* rows of the sheet SmarterStarts_Consultations
    outbox,     \* e-mails the SMTP relay accepted
    env,        \* what clients and external services do: "open" | "nominal"
    text,       \* extraction harness: the text handed to the extraction loop
    names,      \* extraction harness: the list extracted from text
    names2,     \* extraction harness: the list extracted from the rebuilt text
    xpc         \* extraction harness: "input" | "extracted" | "reextracted"

xvars == <<text, names, names2, xpc>>
svars == <<req, received, collection, worksheet, outbox, env>>
vars == <<req, received, collection, worksheet, outbox, env, text, names, names2, xpc>>

-----------------------------------------------------------------------------
(* Bounds of the model. *)

\* number of requests the server receives from arbitrary clients
MaxReqs == 1
\* number of requests the server receives from well-behaved clients
MaxNominalReqs == 2
\* longest text enumerated character by character
MaxChars == 5
\* most lines of a text assembled from sample lines
MaxLines == 6

-----------------------------------------------------------------------------
(* Characters. *)

Digits == {"0", "1", "2", "3", "4", "5", "6", "7", "8", "9"}

Letters ==
    {"a", "b", "c", "d", "e", "f", "g", "h", "i", "j", "k", "l", "m",
     "n", "o", "p", "q", "r", "s", "t", "u", "v", "w", "x", "y", "z",
     "A", "B", "C", "D", "E", "F", "G", "H", "I", "J", "K", "L", "M",
     "N", "O", "P", "Q", "R", "S", "T", "U", "V", "W", "X", "Y", "Z"}

\* what \s of the regular expression and str.strip() take for white space
Whitespace == {" ", "\t", "\n", "\r", "\f"}

\* the character class [A-Za-z0-9 &+_:\-ndash mdash()./] of the regex
NameChars ==
    Letters \cup Digits \cup
    {" ", "&", "+", "_", ":", "-", "ndash", "mdash", "(", ")", ".", "/"}

-----------------------------------------------------------------------------
(* String helpers of the Python runtime, as the source uses them. *)

\* s[i:] (1-based: the suffix starting at position i)
From(s, i) == SubSeq(s, i, Len(s))

\* number of leading characters of s that belong to class
RECURSIVE Run(_, _)
Run(s, class) ==
    IF s = <<>> \/ Head(s) \notin class THEN 0
    ELSE 1 + Run(Tail(s), class)

\* number of trailing characters of s that belong to class
RECURSIVE RunBack(_, _)
RunBack(s, class) ==
    IF s = <<>> \/ s[Len(s)] \notin class THEN 0
    ELSE 1 + RunBack(SubSeq(s, 1, Len(s) - 1), class)

\* str.strip()
Strip(s) ==
    LET a == Run(s, Whitespace)
    IN  IF a = Len(s) THEN <<>>
        ELSE SubSeq(s, a + 1, Len(s) - RunBack(s, Whitespace))

\* position of the first c in s, 0 when there is none (str.find + 1)
RECURSIVE IndexOf(_, _)
IndexOf(s, c) ==
    IF s = <<>> THEN 0
    ELSE IF Head(s) = c THEN 1
    ELSE LET k == IndexOf(Tail(s), c) IN IF k = 0 THEN 0 ELSE k + 1

\* str.split("\n"): always at least one piece
RECURSIVE Split(_)
Split(s) ==
    LET k == IndexOf(s, "\n")
    IN  IF k = 0 THEN <<s>>
        ELSE <<SubSeq(s, 1, k - 1)>> \o Split(From(s, k + 1))

\* "\n".join(lines)
RECURSIVE JoinLines(_)
JoinLines(lines) ==
    IF lines = <<>> THEN <<>>
    ELSE IF Len(lines) = 1 THEN lines[1]
    ELSE lines[1] \o <<"\n">> \o JoinLines(Tail(lines))

DigitChar == <<"0", "1", "2", "3", "4", "5", "6", "7", "8", "9">>

\* str(i) of a natural number
RECURSIVE ToStr(_)
ToStr(i) ==
    IF i < 10 THEN <<DigitChar[i + 1]>>
    ELSE ToStr(i \div 10) \o <<DigitChar[(i % 10) + 1]>>

Max(S) == CHOOSE m \in S : \A k \in S : k <= m

-----------------------------------------------------------------------------
(* Tool-name extraction of recommend_tools (src/app.py:154-160).           *)

\* the part of s after the leading  \d+\.  , or <<"nomatch">> when s does not
\* start with digits followed by a dot
AfterNumber(s) ==
    LET d == Run(s, Digits)
    IN  IF d >= 1 /\ Len(s) > d /\ s[d + 1] = "." THEN <<"rest", From(s, d + 2)>>
        ELSE <<"nomatch">>

\* the offsets at which  \s*  may stop so that the group can start: greedy
\* \s* gives white space back until the next character is in the class
GroupStarts(rest) ==
    {w \in 0..Run(rest, Whitespace) : w < Len(rest) /\ rest[w + 1] \in NameChars}

MatchToolLineUnanchored(line) ==
    LET l == Strip(line)
        n == Run(l, NameChars)
    IN  IF n = 0 THEN <<"nomatch">> ELSE <<"match", SubSeq(l, 1, n)>>

\* re.match(r"^\d+\.\s*([A-Za-z0-9 &+_:\-..()./]+)", line.strip()):
\* <<"match", group(1)>> or <<"nomatch">>
MatchToolLine(line) ==
    LET a == AfterNumber(Strip(line))
    IN  IF a[1] = "nomatch" THEN <<"nomatch">>
        ELSE LET rest == a[2]
                 S == GroupStarts(rest)
             IN  IF S = {} THEN <<"nomatch">>
                 ELSE LET w == Max(S)
                          n == Run(From(rest, w + 1), NameChars)
                      IN  <<"match", SubSeq(rest, w + 1, w + n)>>

\* the loop over text.split("\n"): one name per matching line, in line order
RECURSIVE NamesOfLines(_)
NamesOfLines(lines) ==
    IF lines = <<>> THEN <<>>
    ELSE LET m == MatchToolLine(Head(lines))
         IN  (IF m[1] = "match" THEN <<Strip(m[2])>> ELSE <<>>)
             \o NamesOfLines(Tail(lines))

\* tool_names as recommend_tools computes it from response.text
ExtractToolNames(t) == NamesOfLines(Split(Strip(t)))

\* the numbered reconstruction of a list: the lines "<i>. <L[i]>" joined by "\n"
Reconstruct(L) ==
    JoinLines([i \in 1..Len(L) |-> ToStr(i) \o <<".", " ">> \o L[i]])

-----------------------------------------------------------------------------
(* Sample texts. *)

\* the example of the specification's testable properties
AcmeZen ==
    JoinLines(<<
      <<"1", ".", " ", "A", "c", "m", "e", " ", "C", "R", "M", " ", "-", " ",
        "g", "r", "e", "a", "t", " ", "t", "o", "o", "l">>,
      <<"2", ".", " ", "*", "*", "Z", "e", "n", "*", "*", " ", "ndash", " ", "o", "k">> >>)

\* an answer without a numbered line
Prose == <<"n", "o", " ", "l", "i", "s", "t", ":", "\n", "t", "r", "y", " ", "a", ".">>

\* six numbered lines
SixLines ==
    JoinLines([i \in 1..6 |-> ToStr(i) \o <<".", " ">> \o <<DigitChar[i + 1]>>])

-----------------------------------------------------------------------------
(* Values.  A scalar of a JSON body (a name, a rating, a status) is a      *)
(* string, a number being written in decimal ("4"); a text (the            *)
(* recommendations, a tool name, a time stamp) is a sequence of            *)
(* characters.  A dict is a function whose domain is its set of keys.      *)

\* the requests of this run
Requests == DOMAIN req

\* the choice the environment has: anything that can happen when it is
\* "open", only what a complete request and healthy services do when it is
\* "nominal"
Choices(open, nominal) == IF env = "open" THEN open ELSE nominal

Sinks == {"firestore", "sheet", "mail"}

Has(d, k) == k \in DOMAIN d

\* dict.get(k, default)
Get(d, k, default) == IF k \in DOMAIN d THEN d[k] ELSE default

\* the dict d with key k removed
Without(d, k) == [x \in DOMAIN d \ {k} |-> d[x]]

\* s[:n]
Take(s, n) == SubSeq(s, 1, IF Len(s) < n THEN Len(s) ELSE n)

\* ", ".join(items)
RECURSIVE JoinComma(_)
JoinComma(items) ==
    IF items = <<>> THEN <<>>
    ELSE IF Len(items) = 1 THEN items[1]
    ELSE items[1] \o <<",", " ">> \o JoinComma(Tail(items))

\* what request.get_json() yields: a JSON object, another JSON value (null,
\* a list, a scalar), or an exception when the body is not JSON
Obj(d) == [kind |-> "object", obj |-> d]
NonObject == [kind |-> "nonobject", obj |-> <<>>]
Invalid == [kind |-> "invalid", obj |-> <<>>]

IsDict(data) == data.kind = "object"

-----------------------------------------------------------------------------
(* recommend_tools (src/app.py:126-178).                                   *)

FallbackText ==
    <<"\n", "1", ".", " ", "C", "l", "i", "c", "k", "U", "p", " ", "ndash",
      " ", "A", "l", "l", "-", "i", "n", "-", "o", "n", "e", " ", "p", "r",
      "o", "j", "e", "c", "t", " ", "m", "a", "n", "a", "g", "e", "m", "e",
      "n", "t", ".", "\n", "2", ".", " ", "H", "u", "b", "S", "p", "o",
      "t", " ", "ndash", " ", "C", "R", "M", " ", "&", " ", "m", "a", "r",
      "k", "e", "t", "i", "n", "g", " ", "a", "u", "t", "o", "m", "a", "t",
      "i", "o", "n", ".", "\n", "3", ".", " ", "N", "o", "t", "i", "o",
      "n", " ", "ndash", " ", "T", "e", "a", "m", " ", "w", "o", "r", "k",
      "s", "p", "a", "c", "e", ".", "\n", "4", ".", " ", "A", "s", "a",
      "n", "a", " ", "ndash", " ", "W", "o", "r", "k", "f", "l", "o", "w",
      " ", "m", "a", "n", "a", "g", "e", "m", "e", "n", "t", ".", "\n",
      "5", ".", " ", "Z", "o", "h", "o", " ", "P", "r", "o", "j", "e", "c",
      "t", "s", " ", "ndash", " ", "A", "f", "f", "o", "r", "d", "a", "b",
      "l", "e", " ", "s", "u", "i", "t", "e", ".", "\n">>

FallbackTools ==
    <<<<"C", "l", "i", "c", "k", "U", "p">>,
      <<"H", "u", "b", "S", "p", "o", "t">>,
      <<"N", "o", "t", "i", "o", "n">>,
      <<"A", "s", "a", "n", "a">>,
      <<"Z", "o", "h", "o", " ", "P", "r", "o", "j", "e", "c", "t", "s">>>>

\* what the Gemini call can do: raise (transport error, timeout), return a
\* falsy response, a response without a text attribute, or a response with text
GenFailure(outcome) ==
    \/ outcome.kind \in {"raise", "none", "notext"}
    \/ outcome.kind = "text" /\ Strip(outcome.text) = <<>>

\* the except branch: the fixed fallback, a dict with the keys text and tools
Fallback == [text |-> FallbackText, tools |-> FallbackTools]

\* the whole function: <<"return", dict>> (it has no path that raises)
RecommendToolsUnguarded(outcome) ==
    IF GenFailure(outcome) THEN <<"raise", "Empty Gemini response or timeout">>
    ELSE <<"return", [text |-> Strip(outcome.text),
                      tools |-> ExtractToolNames(outcome.text)]>>

RecommendTools(outcome) ==
    IF GenFailure(outcome) THEN <<"return", Fallback>>
    ELSE <<"return", [text |-> Strip(outcome.text),
                      tools |-> ExtractToolNames(outcome.text)]>>

-----------------------------------------------------------------------------
(* Request records.                                                        *)

\* no Gemini response is held
NoGen == [kind |-> "nocall", text |-> <<>>]

NoResponse == [code |-> 0, status |-> "none"]

IdleReq ==
    [pc |-> "idle", endpoint |-> "none", body |-> Invalid,
     gen |-> NoGen, rec |-> <<>>,
     session |-> Invalid, step |-> 0,
     sink |-> [s \in Sinks |-> "pending"],
     calls |-> [s \in Sinks |-> 0], response |-> NoResponse]

RecommendSinkOrderSwapped == <<"sheet", "firestore", "mail">>

\* the order of the three calls in recommend_api
RecommendSinkOrder == <<"firestore", "sheet", "mail">>

\* the order of the three calls in submit_feedback
FeedbackSinkOrder == <<"firestore", "sheet", "mail">>

SinkOrder(endpoint) ==
    IF endpoint = "recommend" THEN RecommendSinkOrder ELSE FeedbackSinkOrder

\* the handler of request r is about to call sink s
AtSink(r, s) ==
    /\ req[r].pc = "sinks"
    /\ SinkOrder(req[r].endpoint)[req[r].step] = s

\* sink s returned to the handler with the given result
SinkReturns(r, s, result) ==
    [req EXCEPT ![r].sink[s] = result,
                ![r].step = @ + 1,
                ![r].pc = IF req[r].step = Cardinality(Sinks) THEN "respond" ELSE "sinks"]

\* the handler of request r called sink s, which left the requests as q
Invoked(q, r, s) == [q EXCEPT ![r].calls[s] = @ + 1]

\* the handlers' except clause: HTTP 500 with the raised message
HandlerExcept(q, r, message) ==
    [q EXCEPT ![r].pc = "done",
                ![r].response = [code |-> 500, status |-> "error", message |-> message]]

-----------------------------------------------------------------------------
(* save_to_firestore (src/app.py:98-103).                                  *)

FirestoreExceptReraise(r, cause) == HandlerExcept(req, r, cause)

FirestoreExceptRetry(r, cause) == [req EXCEPT ![r].sink["firestore"] = cause]

\* except Exception: print the warning, return
FirestoreExcept(r, cause) == SinkReturns(r, "firestore", cause)

SaveToFirestoreUpsert(r) ==
    /\ AtSink(r, "firestore")
    /\ \E ok \in Choices(BOOLEAN, {TRUE}) :
         LET data == req[r].session
             same == {i \in DOMAIN collection :
                        /\ Has(data.obj, "user") /\ Has(collection[i].doc, "user")
                        /\ collection[i].doc["user"] = data.obj["user"]}
         IN  IF ~IsDict(data)
             THEN /\ req' = Invoked(FirestoreExcept(r, "bad_record"), r, "firestore")
                  /\ UNCHANGED collection
             ELSE IF ~ok
             THEN /\ req' = Invoked(FirestoreExcept(r, "ext_raised"), r, "firestore")
                  /\ UNCHANGED collection
             ELSE /\ collection' =
                       IF same = {} THEN Append(collection, [by |-> r, doc |-> data.obj])
                       ELSE [i \in DOMAIN collection |->
                               IF i \in same THEN [by |-> r, doc |-> data.obj]
                               ELSE collection[i]]
                  /\ req' = Invoked(SinkReturns(r, "firestore", "ok"), r, "firestore")
    /\ UNCHANGED <<received, worksheet, outbox, xvars, env>>

SaveToFirestore(r) ==
    /\ AtSink(r, "firestore")
    /\ \E ok \in Choices(BOOLEAN, {TRUE}) :
         LET data == req[r].session
         IN  IF ~IsDict(data)
             THEN /\ req' = Invoked(FirestoreExcept(r, "bad_record"), r, "firestore")
                  /\ UNCHANGED collection
             ELSE IF ~ok
             THEN /\ req' = Invoked(FirestoreExcept(r, "ext_raised"), r, "firestore")
                  /\ UNCHANGED collection
             ELSE /\ collection' = Append(collection, [by |-> r, doc |-> data.obj])
                  /\ req' = Invoked(SinkReturns(r, "firestore", "ok"), r, "firestore")
    /\ UNCHANGED <<received, worksheet, outbox, xvars, env>>

-----------------------------------------------------------------------------
(* append_to_sheet (src/app.py:74-92).                                     *)

RecsLimit == 500

UserComplete(d) ==
    /\ Has(d, "user")
    /\ {"name", "email", "company_size"} \subseteq DOMAIN d["user"]

SheetRowStrictRating(data) ==
    IF ~IsDict(data) THEN <<"raise", "TypeError">>
    ELSE LET d == data.obj
         IN  IF ~UserComplete(d) \/ ~Has(d, "rating")
             THEN <<"raise", "KeyError">>
             ELSE <<"row",
                    <<d["user"]["name"], d["user"]["email"], d["user"]["company_size"],
                      Get(d["user"], "budget", ""), Get(d, "problem", ""),
                      JoinComma(Get(d, "selected_tools", <<>>)),
                      Take(Get(d, "recommendations", <<>>), RecsLimit),
                      d["rating"], Get(d, "user_feedback", ""),
                      Get(d, "createdAt", <<>>),
                      Get(d, "status", "Pending Consultation")>> >>

SheetRowUncut(data) ==
    IF ~IsDict(data) THEN <<"raise", "TypeError">>
    ELSE LET d == data.obj
         IN  IF ~UserComplete(d) THEN <<"raise", "KeyError">>
             ELSE <<"row",
                    <<d["user"]["name"], d["user"]["email"], d["user"]["company_size"],
                      Get(d["user"], "budget", ""), Get(d, "problem", ""),
                      JoinComma(Get(d, "selected_tools", <<>>)),
                      Get(d, "recommendations", <<>>),
                      Get(d, "rating", ""), Get(d, "user_feedback", ""),
                      Get(d, "createdAt", <<>>),
                      Get(d, "status", "Pending Consultation")>> >>

\* the list handed to worksheet.append_row, or the exception building it raises
SheetRow(data) ==
    IF ~IsDict(data) THEN <<"raise", "TypeError">>
    ELSE LET d == data.obj
         IN  IF ~UserComplete(d) THEN <<"raise", "KeyError">>
             ELSE <<"row",
                    <<d["user"]["name"], d["user"]["email"], d["user"]["company_size"],
                      Get(d["user"], "budget", ""), Get(d, "problem", ""),
                      JoinComma(Get(d, "selected_tools", <<>>)),
                      Take(Get(d, "recommendations", <<>>), RecsLimit),
                      Get(d, "rating", ""), Get(d, "user_feedback", ""),
                      Get(d, "createdAt", <<>>),
                      Get(d, "status", "Pending Consultation")>> >>

\* except Exception: print the warning, return
SheetExcept(r, cause) == SinkReturns(r, "sheet", cause)

AppendToSheet(r) ==
    /\ AtSink(r, "sheet")
    /\ \E ok \in Choices(BOOLEAN, {TRUE}) :
         LET row == SheetRow(req[r].session)
         IN  IF row[1] = "raise"
             THEN /\ req' = Invoked(SheetExcept(r, "bad_record"), r, "sheet")
                  /\ UNCHANGED worksheet
             ELSE IF ~ok
             THEN /\ req' = Invoked(SheetExcept(r, "ext_raised"), r, "sheet")
                  /\ UNCHANGED worksheet
             ELSE /\ worksheet' = Append(worksheet, [by |-> r, row |-> row[2]])
                  /\ req' = Invoked(SinkReturns(r, "sheet", "ok"), r, "sheet")
    /\ UNCHANGED <<received, collection, outbox, xvars, env>>

\* a text one character longer than the sheet keeps
LongText == [i \in 1..(RecsLimit + 1) |-> IF i % 10 = 0 THEN "\n" ELSE "x"]

-----------------------------------------------------------------------------
(* send_admin_alert (src/app.py:184-220).                                  *)

\* the message handed to smtp.sendmail, or the exception building it raises
AdminMail(data) ==
    IF ~IsDict(data) THEN <<"raise", "TypeError">>
    ELSE LET d == data.obj
         IN  IF ~UserComplete(d) \/ ~Has(d, "problem") \/ ~Has(d, "createdAt")
             THEN <<"raise", "KeyError">>
             ELSE <<"mail",
                    [subject |-> d["user"]["name"],
                     name |-> d["user"]["name"],
                     email |-> d["user"]["email"],
                     company_size |-> d["user"]["company_size"],
                     problem |-> d["problem"],
                     selected_tools |-> JoinComma(Get(d, "selected_tools", <<>>)),
                     rating |-> Get(d, "rating", "N/A"),
                     user_feedback |-> Get(d, "user_feedback", "N/A"),
                     createdAt |-> d["createdAt"]]>>

\* except Exception: print the warning, return
MailExcept(r, cause) == SinkReturns(r, "mail", cause)

SendAdminAlert(r) ==
    /\ AtSink(r, "mail")
    /\ \E ok \in Choices(BOOLEAN, {TRUE}) :
         LET mail == AdminMail(req[r].session)
         IN  IF mail[1] = "raise"
             THEN /\ req' = Invoked(MailExcept(r, "bad_record"), r, "mail")
                  /\ UNCHANGED outbox
             ELSE IF ~ok
             THEN /\ req' = Invoked(MailExcept(r, "ext_raised"), r, "mail")
                  /\ UNCHANGED outbox
             ELSE /\ outbox' = Append(outbox, [by |-> r, mail |-> mail[2]])
                  /\ req' = Invoked(SinkReturns(r, "mail", "ok"), r, "mail")
    /\ UNCHANGED <<received, collection, worksheet, xvars, env>>

-----------------------------------------------------------------------------
(* recommend_api (src/app.py:231-277).                                     *)

\* what the Gemini service is taken to answer
GenTexts ==
    {<<>>,
     <<" ", "\n">>,
     AcmeZen,
     SixLines,
     Prose}

GenOutcomes ==
    {[kind |-> k, text |-> <<>>] : k \in {"raise", "none", "notext"}}
    \cup {[kind |-> "text", text |-> t] : t \in GenTexts}

RecommendKeys == {"problem", "name", "email", "company_size", "budget"}

RecommendFieldsStrict(d) ==
    IF RecommendKeys \subseteq DOMAIN d
    THEN <<"fields", [k \in RecommendKeys |-> d[k]]>>
    ELSE <<"raise", "KeyError">>

\* problem, name, email, company_size, budget = data.get(..., "")
RecommendFields(d) == <<"fields", [k \in RecommendKeys |-> Get(d, k, "")]>>

\* datetime.datetime.now(datetime.UTC).isoformat() on the logical clock
Now == ToStr(received)

\* the dict session_data
SessionData(f, recommendations, createdAt) ==
    [user |-> [name |-> f["name"], email |-> f["email"],
               company_size |-> f["company_size"], budget |-> f["budget"]],
     problem |-> f["problem"],
     recommendations |-> recommendations,
     selected_tools |-> <<>>,
     rating |-> "0",
     user_feedback |-> "",
     status |-> "Pending Consultation",
     createdAt |-> createdAt]

RecommendFull ==
    [problem |-> "onboarding", name |-> "Ada", email |-> "ada@x.io",
     company_size |-> "SMB", budget |-> "100"]

RecommendBodies ==
    {Obj(RecommendFull), Obj(Without(RecommendFull, "problem")),
     Obj(Without(RecommendFull, "company_size")), Obj(<<>>), NonObject, Invalid}

\* the request arrives; get_json and the five data.get, all inside the
\* handler's try: whatever they raise ends in the except clause
RecommendStart(r) ==
    /\ r = received + 1
    /\ r \in Requests
    /\ received' = r
    /\ \E body \in Choices(RecommendBodies, {Obj(RecommendFull)}) :
         LET q == [req EXCEPT ![r].endpoint = "recommend", ![r].body = body]
         IN  IF body.kind = "invalid" THEN req' = HandlerExcept(q, r, "BadRequest")
             ELSE IF body.kind = "nonobject"
             THEN req' = HandlerExcept(q, r, "AttributeError")
             ELSE IF RecommendFields(body.obj)[1] = "raise"
             THEN req' = HandlerExcept(q, r, RecommendFields(body.obj)[2])
             ELSE req' = [q EXCEPT ![r].pc = "generate"]
    /\ UNCHANGED <<collection, worksheet, outbox, xvars, env>>

\* model.generate_content(prompt, ...) inside recommend_tools: the network
\* round trip ends and its outcome is the local variable response
GeminiCall(r) ==
    /\ req[r].pc = "generate"
    /\ \E outcome \in Choices(GenOutcomes, {[kind |-> "text", text |-> AcmeZen]}) :
         req' = [req EXCEPT ![r].gen = outcome, ![r].pc = "generated"]
    /\ UNCHANGED <<received, collection, worksheet, outbox, xvars, env>>

\* the rest of recommend_tools, which returns (its locals are gone), then
\* session_data is built
BuildSession(r) ==
    /\ req[r].pc = "generated"
    /\ LET res == RecommendTools(req[r].gen)
           f == RecommendFields(req[r].body.obj)[2]
       IN  IF res[1] = "raise"
           THEN req' = HandlerExcept([req EXCEPT ![r].gen = NoGen], r, res[2])
           ELSE req' = [req EXCEPT ![r].gen = NoGen,
                                   ![r].rec = res[2],
                                   ![r].session = Obj(SessionData(f, res[2].text, Now)),
                                   ![r].step = 1,
                                   ![r].pc = "sinks"]
    /\ UNCHANGED <<received, collection, worksheet, outbox, xvars, env>>

-----------------------------------------------------------------------------
(* submit_feedback (src/app.py:280-295).                                   *)

FeedbackFull ==
    [user |-> [name |-> "Ada", email |-> "ada@x.io", company_size |-> "SMB",
               budget |-> "100"],
     problem |-> "onboarding",
     recommendations |-> AcmeZen,
     selected_tools |-> << <<"A">>, <<"B">> >>,
     rating |-> "4",
     user_feedback |-> "fine",
     status |-> "Pending Consultation",
     createdAt |-> <<"T", "0">>]

FeedbackBodies ==
    {Obj(FeedbackFull), Obj(Without(FeedbackFull, "rating")),
     Obj(Without(FeedbackFull, "user")), Obj(Without(FeedbackFull, "problem")),
     Obj(Without(FeedbackFull, "createdAt")),
     Obj([FeedbackFull EXCEPT !["rating"] = "9"]),
     Obj([FeedbackFull EXCEPT !["recommendations"] = LongText]), NonObject, Invalid}

FeedbackStartRestamp(r) ==
    /\ r = received + 1
    /\ r \in Requests
    /\ received' = r
    /\ \E body \in Choices(FeedbackBodies, {Obj(FeedbackFull)}) :
         LET q == [req EXCEPT ![r].endpoint = "feedback", ![r].body = body]
             stamped == IF IsDict(body) /\ Has(body.obj, "createdAt")
                        THEN Obj([body.obj EXCEPT !["createdAt"] = ToStr(r)])
                        ELSE body
         IN  IF body.kind = "invalid" THEN req' = HandlerExcept(q, r, "BadRequest")
             ELSE req' = [q EXCEPT ![r].session = stamped, ![r].step = 1, ![r].pc = "sinks"]
    /\ UNCHANGED <<collection, worksheet, outbox, xvars, env>>

\* the request arrives; get_json
FeedbackStart(r) ==
    /\ r = received + 1
    /\ r \in Requests
    /\ received' = r
    /\ \E body \in Choices(FeedbackBodies, {Obj(FeedbackFull)}) :
         LET q == [req EXCEPT ![r].endpoint = "feedback", ![r].body = body]
         IN  IF body.kind = "invalid" THEN req' = HandlerExcept(q, r, "BadRequest")
             ELSE req' = [q EXCEPT ![r].session = body, ![r].step = 1, ![r].pc = "sinks"]
    /\ UNCHANGED <<collection, worksheet, outbox, xvars, env>>

-----------------------------------------------------------------------------
(* The return jsonify(...) of the two handlers.                            *)

ResponsePayloadWithSinks(r) ==
    IF \E s \in Sinks : req[r].sink[s] # "ok"
    THEN [code |-> 500, status |-> "error", message |-> "sink failed"]
    ELSE [code |-> 200, status |-> "success", message |-> "Feedback saved successfully!"]

ResponsePayload(r) ==
    IF req[r].endpoint = "recommend"
    THEN [code |-> 200, status |-> "success",
          recommendations |-> req[r].rec.text, tool_names |-> req[r].rec.tools]
    ELSE [code |-> 200, status |-> "success", message |-> "Feedback saved successfully!"]

RespondEarly(r) ==
    /\ req[r].pc \in {"sinks", "respond"}
    /\ req' = [req EXCEPT ![r].response = ResponsePayload(r), ![r].pc = "done"]
    /\ UNCHANGED <<received, collection, worksheet, outbox, xvars, env>>

\* the three sink calls have returned: the handler returns its response
Respond(r) ==
    /\ req[r].pc = "respond"
    /\ req' = [req EXCEPT ![r].response = ResponsePayload(r), ![r].pc = "done"]
    /\ UNCHANGED <<received, collection, worksheet, outbox, xvars, env>>

-----------------------------------------------------------------------------
(* The server.                                                             *)

SInit ==
    /\ req = [r \in 1..MaxReqs |-> IdleReq]
    /\ env = "open"
    /\ received = 0
    /\ collection = <<>>
    /\ worksheet = <<>>
    /\ outbox = <<>>

\* the extraction harness is not running
XIdle ==
    /\ text = <<>>
    /\ names = <<>>
    /\ names2 = <<>>
    /\ xpc = "off"

Init == SInit /\ XIdle

Next ==
    \E r \in Requests :
        \/ RecommendStart(r)
        \/ GeminiCall(r)
        \/ BuildSession(r)
        \/ FeedbackStart(r)
        \/ SaveToFirestore(r)
        \/ AppendToSheet(r)
        \/ SendAdminAlert(r)
        \/ Respond(r)

Spec == Init /\ [][Next]_vars

\* complete requests only, every external call succeeds
NominalInit ==
    /\ req = [r \in 1..MaxNominalReqs |-> IdleReq]
    /\ env = "nominal"
    /\ received = 0
    /\ collection = <<>>
    /\ worksheet = <<>>
    /\ outbox = <<>>
    /\ XIdle

SpecNominal == NominalInit /\ [][Next]_vars

-----------------------------------------------------------------------------
(* Extraction harness: the inputs are drawn in XInit, the actions apply    *)
(* the extraction.                                                         *)

Alphabet == {"1", ".", " ", "a", "-", "*", "\n"}

CharTexts == UNION {[1..n -> Alphabet] : n \in 0..MaxChars}

SampleLines ==
    {<<"1", ".", " ", "A", "c", " ", "-", " ", "g">>,
     <<"2", ".", " ", "*", "*", "Z", "*", "*", " ", "ndash", " ", "o">>,
     <<"n", "o", "n", "e">>,
     <<"1", "0", ".", "b", ":", "c">>}

LineTexts == {JoinLines(ls) : ls \in UNION {[1..n -> SampleLines] : n \in 1..MaxLines}}

XInit ==
    /\ SInit
    /\ text \in CharTexts \cup LineTexts \cup {AcmeZen}
    /\ names = <<>>
    /\ names2 = <<>>
    /\ xpc = "input"

Extract ==
    /\ xpc = "input"
    /\ names' = ExtractToolNames(text)
    /\ xpc' = "extracted"
    /\ UNCHANGED <<text, names2>>
    /\ UNCHANGED svars

ReExtract ==
    /\ xpc = "extracted"
    /\ names2' = ExtractToolNames(Reconstruct(names))
    /\ xpc' = "reextracted"
    /\ UNCHANGED <<text, names>>
    /\ UNCHANGED svars

XNext == Extract \/ ReExtract

SpecExtract == XInit /\ [][XNext]_vars

-----------------------------------------------------------------------------
(* Vocabulary of the properties.                                           *)

\* the session record of request r was handed to the sinks
Reached(r) == req[r].step >= 1

\* the record handed to the sinks has what sink s reads
RecordFits(r, s) ==
    CASE s = "firestore" -> IsDict(req[r].session)
      [] s = "sheet" -> SheetRow(req[r].session)[1] = "row"
      [] s = "mail" -> AdminMail(req[r].session)[1] = "mail"

\* the write of sink s for request r is in the external system
Written(r, s) ==
    CASE s = "firestore" ->
           \E i \in DOMAIN collection :
               collection[i] = [by |-> r, doc |-> req[r].session.obj]
      [] s = "sheet" ->
           \E i \in DOMAIN worksheet :
               worksheet[i] = [by |-> r, row |-> SheetRow(req[r].session)[2]]
      [] s = "mail" ->
           \E i \in DOMAIN outbox :
               outbox[i] = [by |-> r, mail |-> AdminMail(req[r].session)[2]]

-----------------------------------------------------------------------------
(* C1 *)

\* C1: in both handlers, once the record was handed to the sinks, no sink's
\* exception leaves the sink (the handler reaches its return, never its except
\* clause), all three sinks are invoked, and when exactly one sink's external
\* call raised, the other two completed and their writes for this record exist.
C1_SinkFailureIsLocal ==
    \A r \in Requests :
        (Reached(r) /\ req[r].pc \in {"respond", "done"}) =>
            /\ req[r].response.code # 500
            /\ \A s \in Sinks : req[r].sink[s] # "pending"
            /\ \A s \in Sinks :
                 (/\ req[r].sink[s] = "ext_raised"
                  /\ \A t \in Sinks \ {s} : req[r].sink[t] # "ext_raised")
                 => \A t \in Sinks \ {s} :
                        RecordFits(r, t) => req[r].sink[t] = "ok" /\ Written(r, t)

\* C1 witness: a POST /recommend whose Firestore call raised while the row was
\* appended and the e-mail sent.
C1_Witness ==
    \E r \in Requests :
        /\ req[r].pc = "done"
        /\ req[r].endpoint = "recommend"
        /\ req[r].sink["firestore"] = "ext_raised"
        /\ req[r].sink["sheet"] = "ok" /\ Written(r, "sheet")
        /\ req[r].sink["mail"] = "ok" /\ Written(r, "mail")

-----------------------------------------------------------------------------
(* C2 *)

\* C2 (as amended): POST /recommend returns its 200 response only after all
\* three sink calls have returned; the fan-out is not detached.
C2_ResponseAfterSinks ==
    \A r \in Requests :
        (req[r].endpoint = "recommend" /\ req[r].response.code = 200) =>
            \A s \in Sinks : req[r].sink[s] # "pending"

\* C2 witness: a POST /recommend answered 200 with the three sinks returned.
C2_Witness ==
    \E r \in Requests :
        /\ req[r].endpoint = "recommend"
        /\ req[r].response.code = 200
        /\ \A s \in Sinks : req[r].sink[s] = "ok"

\* C2 as stated: once the session record is built the handler can return its
\* response without waiting for any sink, so before the first sink has
\* completed the response is already possible.
C2_Original ==
    \A r \in Requests :
        (req[r].endpoint = "recommend" /\ req[r].pc = "sinks" /\ req[r].step = 1) =>
            ENABLED Respond(r)

-----------------------------------------------------------------------------
(* C3 *)

\* C3 (as amended): the three sinks are called one after the other in the
\* fixed order save_to_firestore, append_to_sheet, send_admin_alert; a sink
\* has returned only if every sink before it in that order has returned.
C3_SinksInSequence ==
    \A r \in Requests :
        /\ req[r].sink["sheet"] # "pending" => req[r].sink["firestore"] # "pending"
        /\ req[r].sink["mail"] # "pending" => req[r].sink["sheet"] # "pending"

\* C3 witness: Firestore has returned while the sheet and the e-mail have
\* not been called yet.
C3_Witness ==
    \E r \in Requests :
        /\ req[r].pc = "sinks"
        /\ req[r].sink["firestore"] # "pending"
        /\ req[r].sink["sheet"] = "pending"
        /\ req[r].sink["mail"] = "pending"

\* C3 as stated: once the record is ready no sink call has to wait for
\* another sink call to return: every sink not yet called can be called now.
C3_Original ==
    \A r \in Requests :
        req[r].pc = "sinks" =>
            /\ req[r].sink["firestore"] = "pending" => ENABLED SaveToFirestore(r)
            /\ req[r].sink["sheet"] = "pending" => ENABLED AppendToSheet(r)
            /\ req[r].sink["mail"] = "pending" => ENABLED SendAdminAlert(r)

-----------------------------------------------------------------------------
(* C4 *)

\* C4: whatever the three sinks did, the response of a request whose record
\* was handed to them is the one given when all succeed: 200, status
\* "success", and a payload made of the generated text and tool names (or
\* the fixed message) only.
C4_ResponseIgnoresSinks ==
    \A r \in Requests :
        (Reached(r) /\ req[r].pc = "done") =>
            req[r].response =
                IF req[r].endpoint = "recommend"
                THEN [code |-> 200, status |-> "success",
                      recommendations |-> req[r].rec.text,
                      tool_names |-> req[r].rec.tools]
                ELSE [code |-> 200, status |-> "success",
                      message |-> "Feedback saved successfully!"]

\* C4 witness: a POST /submit_feedback answered 200 although all three sinks
\* failed.
C4_Witness ==
    \E r \in Requests :
        /\ req[r].pc = "done"
        /\ req[r].endpoint = "feedback"
        /\ \A s \in Sinks : req[r].sink[s] = "ext_raised"
        /\ req[r].response.code = 200

-----------------------------------------------------------------------------
(* C5 *)

\* a generation failure in the claim's words: the call raises, the response
\* is missing, or its text is empty or white space only
C5_Failure(gen) ==
    \/ gen.kind \in {"raise", "none", "notext"}
    \/ gen.kind = "text" /\ \A i \in DOMAIN gen.text : gen.text[i] \in Whitespace

\* C5 (as amended): on any generation failure recommend_tools returns the
\* fixed fallback text with the fixed tool set, as a dict with the keys text
\* and tools only (there is no ok flag), no exception reaches the handler,
\* and the request ends with HTTP 200 and status "success".
C5_FallbackOnFailure ==
    /\ [][\A r \in Requests :
            (/\ req[r].pc = "generated"
             /\ C5_Failure(req[r].gen)
             /\ req'[r].pc # "generated")
            => /\ req'[r].pc = "sinks"
               /\ DOMAIN req'[r].rec = {"text", "tools"}
               /\ req'[r].rec.text = FallbackText
               /\ req'[r].rec.tools =
                    <<<<"C", "l", "i", "c", "k", "U", "p">>,
                      <<"H", "u", "b", "S", "p", "o", "t">>,
                      <<"N", "o", "t", "i", "o", "n">>,
                      <<"A", "s", "a", "n", "a">>,
                      <<"Z", "o", "h", "o", " ", "P", "r", "o", "j", "e", "c", "t", "s">>>>]_vars
    /\ [](\A r \in Requests :
            (req[r].endpoint = "recommend" /\ Reached(r) /\ req[r].pc = "done") =>
                req[r].response.code = 200 /\ req[r].response.status = "success")

\* C5 witness: a POST /recommend answered 200 with the fallback text and tools.
C5_Witness ==
    \E r \in Requests :
        /\ req[r].pc = "done"
        /\ req[r].response.code = 200
        /\ req[r].endpoint = "recommend"
        /\ req[r].response.recommendations = FallbackText
        /\ req[r].response.tool_names = FallbackTools

\* C5 as stated: what recommend_tools returns on a generation failure carries
\* ok = false.
C5_Original ==
    [][\A r \in Requests :
         (/\ req[r].pc = "generated"
          /\ C5_Failure(req[r].gen)
          /\ req'[r].pc # "generated")
         => /\ req'[r].rec.text = FallbackText
            /\ "ok" \in DOMAIN req'[r].rec
            /\ req'[r].rec["ok"] = FALSE]_vars

-----------------------------------------------------------------------------
(* C6 *)

\* the request body is a JSON object without one of the fields the claim
\* calls required
C6_MissingRequired(r) ==
    /\ req[r].body.kind = "object"
    /\ IF req[r].endpoint = "recommend"
       THEN ~({"problem", "name", "email", "company_size"} \subseteq DOMAIN req[r].body.obj)
       ELSE ~({"user", "problem", "createdAt"} \subseteq DOMAIN req[r].body.obj)

\* C6 (as amended): a request ends with HTTP 500, status "error" and the
\* raised message exactly when its body cannot be read as JSON, or, for POST
\* /recommend, is JSON but not an object; a JSON object with fields missing
\* ends with HTTP 200.
C6_ErrorOnlyForUnreadableBody ==
    \A r \in Requests :
        req[r].pc = "done" =>
            /\ req[r].response.code = 500 <=>
                 \/ req[r].body.kind = "invalid"
                 \/ req[r].endpoint = "recommend" /\ req[r].body.kind = "nonobject"
            /\ req[r].response.code = 500 =>
                 /\ req[r].response.status = "error"
                 /\ req[r].response.message =
                      IF req[r].body.kind = "invalid" THEN "BadRequest" ELSE "AttributeError"
            /\ C6_MissingRequired(r) => req[r].response.code = 200

\* C6 witness: a POST /recommend whose body is JSON but no object ended 500.
C6_Witness ==
    \E r \in Requests :
        /\ req[r].pc = "done"
        /\ req[r].endpoint = "recommend"
        /\ req[r].body.kind = "nonobject"
        /\ req[r].response = [code |-> 500, status |-> "error", message |-> "AttributeError"]

\* C6 as stated: a JSON body with a required field missing ends with HTTP 500
\* and status "error".
C6_Original ==
    \A r \in Requests :
        (req[r].pc = "done" /\ C6_MissingRequired(r)) =>
            req[r].response.code = 500 /\ req[r].response.status = "error"

-----------------------------------------------------------------------------
(* C7 *)

\* the body of a POST /submit_feedback is complete but for the rating
C7_OnlyRatingMissing(r) ==
    /\ req[r].endpoint = "feedback"
    /\ req[r].body.kind = "object"
    /\ DOMAIN req[r].body.obj = DOMAIN FeedbackFull \ {"rating"}
    /\ DOMAIN req[r].body.obj["user"] = DOMAIN FeedbackFull["user"]

\* the rows request r appended
C7_RowsOf(r) == {i \in DOMAIN worksheet : worksheet[i].by = r}

\* C7: a POST /submit_feedback whose body lacks only the rating ends with
\* HTTP 200, the stored record has no rating, append_to_sheet never fails on
\* the record, and unless the sheet call itself raised it appended exactly
\* one row of 11 fields whose 8th field is the empty string.
C7_MissingRatingStillAppends ==
    \A r \in Requests :
        C7_OnlyRatingMissing(r) =>
            /\ req[r].pc = "done" => req[r].response.code = 200
            /\ ~Has(req[r].session.obj, "rating")
            /\ req[r].sink["sheet"] # "bad_record"
            /\ req[r].sink["sheet"] = "ok" =>
                 /\ Cardinality(C7_RowsOf(r)) = 1
                 /\ \A i \in C7_RowsOf(r) :
                      /\ Len(worksheet[i].row) = 11
                      /\ worksheet[i].row[8] = ""
            /\ req[r].sink["sheet"] # "ok" => C7_RowsOf(r) = {}

\* C7 witness: such a request was answered 200 and its row is in the sheet.
C7_Witness ==
    \E r \in Requests :
        /\ C7_OnlyRatingMissing(r)
        /\ req[r].pc = "done"
        /\ req[r].response.code = 200
        /\ req[r].sink["sheet"] = "ok"
        /\ \E i \in C7_RowsOf(r) : worksheet[i].row[8] = ""

-----------------------------------------------------------------------------
(* C8 *)

\* C8 as stated: from the two lines "1. Acme CRM - great tool" and
\* "2. **Zen** - ok" (the second dash an en dash) the extraction yields
\* exactly the names "Acme CRM" and "Zen".
C8_Original ==
    (xpc = "extracted" /\ text = AcmeZen) =>
        names = <<<<"A", "c", "m", "e", " ", "C", "R", "M">>,
                  <<"Z", "e", "n">>>>

-----------------------------------------------------------------------------
(* C9 *)

\* C9 as stated: extracting from the numbered reconstruction of an extracted
\* list yields that list again.
C9_Original == xpc = "reextracted" => names2 = names

-----------------------------------------------------------------------------
(* C10 *)

\* C10 as stated: the tool_names returned by POST /recommend have at most 5
\* entries.
C10_Original ==
    \A r \in Requests :
        (req[r].endpoint = "recommend" /\ req[r].response.code = 200) =>
            Len(req[r].response.tool_names) <= 5

-----------------------------------------------------------------------------
(* C11 *)

\* no line of t, taken as the loop takes it (without its surrounding white
\* space), begins with an integer followed by "."
C11_Unnumbered(t) ==
    LET lines == Split(t)
    IN  \A i \in DOMAIN lines : AfterNumber(Strip(lines[i]))[1] = "nomatch"

\* C11: when Gemini answers a text none of whose lines begins with an integer
\* followed by ".", the extraction returns the empty list without raising:
\* recommend_tools returns the whole (stripped) text with that empty list,
\* the handler goes on to the sinks, the result is not touched again, and
\* POST /recommend answers HTTP 200 with that text and an empty tool_names.
C11_NoNumberedLineIsNormal ==
    /\ [][\A r \in Requests :
            /\ (/\ req[r].pc = "generated"
                /\ req'[r].pc # "generated"
                /\ ~GenFailure(req[r].gen)
                /\ C11_Unnumbered(req[r].gen.text))
               => /\ req'[r].pc = "sinks"
                  /\ req'[r].rec = [text |-> Strip(req[r].gen.text), tools |-> <<>>]
            /\ Reached(r) => req'[r].rec = req[r].rec]_vars
    /\ [](\A r \in Requests :
            (/\ req[r].endpoint = "recommend"
             /\ Reached(r)
             /\ req[r].pc = "done"
             /\ req[r].rec.tools = <<>>) =>
                /\ req[r].response.code = 200
                /\ req[r].response.recommendations = req[r].rec.text
                /\ req[r].response.tool_names = <<>>)

\* C11 witness: a POST /recommend answered 200 with the prose answer in full
\* and no tool names.
C11_Witness ==
    \E r \in Requests :
        /\ req[r].endpoint = "recommend"
        /\ req[r].pc = "done"
        /\ req[r].response.code = 200
        /\ req[r].response.recommendations = Prose
        /\ req[r].response.tool_names = <<>>

-----------------------------------------------------------------------------
(* C12 *)

\* cell is the text s cut to its first 500 characters
C12_First500(cell, s) ==
    IF Len(s) <= 500 THEN cell = s ELSE cell = SubSeq(s, 1, 500)

\* C12: for every session record handed to append_to_sheet, unless the
\* worksheet call itself raised, the sheet gains exactly one row of exactly
\* 11 fields in the order name, e-mail, company size, budget, problem,
\* selected tools, recommendations, rating, feedback text, creation time
\* stamp, status; the 6th field is the selected tools joined by ", "
\* (["A","B"] gives "A, B") and the 7th the recommendations cut to their
\* first 500 characters.  A record that has its user is never refused, and a
\* call that failed leaves no row.
C12_RowOfElevenFields ==
    \A r \in Requests :
        Reached(r) =>
            LET rows == {i \in DOMAIN worksheet : worksheet[i].by = r}
                d == req[r].session.obj
            IN  /\ (IsDict(req[r].session) /\ UserComplete(d)) =>
                     req[r].sink["sheet"] # "bad_record"
                /\ req[r].sink["sheet"] # "ok" => rows = {}
                /\ req[r].sink["sheet"] = "ok" =>
                     /\ Cardinality(rows) = 1
                     /\ \A i \in rows :
                          LET row == worksheet[i].row
                              tools == Get(d, "selected_tools", <<>>)
                          IN  /\ Len(row) = 11
                              /\ row[1] = d["user"]["name"]
                              /\ row[2] = d["user"]["email"]
                              /\ row[3] = d["user"]["company_size"]
                              /\ row[4] = Get(d["user"], "budget", "")
                              /\ row[5] = Get(d, "problem", "")
                              /\ tools = <<>> => row[6] = <<>>
                              /\ tools = << <<"A">>, <<"B">> >> =>
                                   row[6] = <<"A", ",", " ", "B">>
                              /\ C12_First500(row[7], Get(d, "recommendations", <<>>))
                              /\ row[8] = Get(d, "rating", "")
                              /\ row[9] = Get(d, "user_feedback", "")
                              /\ row[10] = Get(d, "createdAt", <<>>)
                              /\ row[11] = Get(d, "status", "Pending Consultation")

\* C12 witness: the row of a record whose recommendations are longer than
\* 500 characters holds their first 500 characters, after the selected tools
\* joined to "A, B".
C12_Witness ==
    \E r \in Requests :
        /\ req[r].sink["sheet"] = "ok"
        /\ Len(req[r].session.obj["recommendations"]) > 500
        /\ \E i \in DOMAIN worksheet :
             /\ worksheet[i].by = r
             /\ Len(worksheet[i].row) = 11
             /\ worksheet[i].row[6] = <<"A", ",", " ", "B">>
             /\ Len(worksheet[i].row[7]) = 500

-----------------------------------------------------------------------------
(* C13 *)

\* the createdAt of a record, <<"absent">> when it has none
C13_CreatedAt(d) == IF Has(d, "createdAt") THEN <<"at", d["createdAt"]>> ELSE <<"absent">>

\* C13: createdAt is set once, when POST /recommend builds the session, to
\* the time of that moment; POST /submit_feedback hands on the createdAt of
\* the body it received; once a record is handed to the sinks it is never
\* changed, and what each of the three sinks writes for a request carries
\* that record's createdAt.
C13_CreatedAtSetOnce ==
    /\ [][\A r \in Requests :
            /\ Reached(r) => req'[r].session = req[r].session
            /\ (~Reached(r) /\ req'[r].step >= 1 /\ req'[r].endpoint = "recommend") =>
                 req'[r].session.obj["createdAt"] = ToStr(received)]_vars
    /\ [](\A r \in Requests :
            (Reached(r) /\ IsDict(req[r].session)) =>
                LET d == req[r].session.obj
                IN  /\ req[r].endpoint = "recommend" => Has(d, "createdAt")
                    /\ req[r].endpoint = "feedback" =>
                         C13_CreatedAt(d) = C13_CreatedAt(req[r].body.obj)
                    /\ \A i \in DOMAIN collection :
                         collection[i].by = r =>
                             C13_CreatedAt(collection[i].doc) = C13_CreatedAt(d)
                    /\ \A i \in DOMAIN worksheet :
                         worksheet[i].by = r =>
                             worksheet[i].row[10] = Get(d, "createdAt", <<>>)
                    /\ \A i \in DOMAIN outbox :
                         outbox[i].by = r =>
                             Has(d, "createdAt") /\ outbox[i].mail.createdAt = d["createdAt"])

\* C13 witness: a POST /recommend whose document, row and e-mail all carry
\* the time stamp the handler took when it built the session.
C13_Witness ==
    \E r \in Requests :
        /\ req[r].endpoint = "recommend"
        /\ req[r].pc = "done"
        /\ Reached(r)
        /\ req[r].session.obj["createdAt"] = ToStr(r)
        /\ \E i \in DOMAIN collection :
             collection[i].by = r /\ collection[i].doc["createdAt"] = ToStr(r)
        /\ \E i \in DOMAIN worksheet :
             worksheet[i].by = r /\ worksheet[i].row[10] = ToStr(r)
        /\ \E i \in DOMAIN outbox :
             outbox[i].by = r /\ outbox[i].mail.createdAt = ToStr(r)

-----------------------------------------------------------------------------
(* C14 *)

\* C14 as stated: every record handed to the sinks has no rating, the rating
\* 0, or a rating in 1..5, and no other rating is ever stored in the
\* collection.
C14_Original ==
    /\ \A r \in Requests :
         (Reached(r) /\ IsDict(req[r].session) /\ Has(req[r].session.obj, "rating")) =>
             req[r].session.obj["rating"] \in {"0", "1", "2", "3", "4", "5"}
    /\ \A i \in DOMAIN collection :
         Has(collection[i].doc, "rating") =>
             collection[i].doc["rating"] \in {"0", "1", "2", "3", "4", "5"}

-----------------------------------------------------------------------------
(* C15 *)

\* the writes of request r that sink s holds
C15_Entries(r, s) ==
    CASE s = "firestore" -> {i \in DOMAIN collection : collection[i].by = r}
      [] s = "sheet" -> {i \in DOMAIN worksheet : worksheet[i].by = r}
      [] s = "mail" -> {i \in DOMAIN outbox : outbox[i].by = r}

\* C15: there is no retry.  Within a request whose record is handed to the
\* sinks, each of the three sinks is called exactly once, whether the call
\* succeeds or fails (and no request calls a sink twice); a call that
\* returned is never made again, its result stands, and a sink whose call
\* failed never holds a write of that request.
C15_NoRetry ==
    /\ [][\A r \in Requests : \A s \in Sinks :
            req[r].sink[s] # "pending" =>
                /\ req'[r].sink[s] = req[r].sink[s]
                /\ req'[r].calls[s] = req[r].calls[s]]_vars
    /\ [](\A r \in Requests : \A s \in Sinks :
            /\ req[r].calls[s] <= 1
            /\ req[r].calls[s] = 1 <=> req[r].sink[s] # "pending"
            /\ (Reached(r) /\ req[r].pc \in {"respond", "done"}) => req[r].calls[s] = 1
            /\ req[r].sink[s] \in {"ext_raised", "bad_record"} => C15_Entries(r, s) = {}
            /\ Cardinality(C15_Entries(r, s)) <= 1)

\* C15 witness: a request has ended whose sheet call raised: each sink was
\* called once, the sheet holds no row of it, the other two hold its writes.
C15_Witness ==
    \E r \in Requests :
        /\ req[r].pc = "done"
        /\ req[r].sink["sheet"] = "ext_raised"
        /\ \A s \in Sinks : req[r].calls[s] = 1
        /\ C15_Entries(r, "sheet") = {}
        /\ Cardinality(C15_Entries(r, "firestore")) = 1
        /\ Cardinality(C15_Entries(r, "mail")) = 1

-----------------------------------------------------------------------------
(* C16 *)

\* the requests whose call of sink s has succeeded
C16_Served(s) == {r \in Requests : req[r].sink[s] = "ok"}

\* C16: when all sink calls succeed, every request adds one document, one row
\* and one e-mail of its own: at any moment each sink holds exactly one entry
\* per request that has called it, so after n requests each holds exactly n;
\* entries are only ever appended, an existing one is never changed or
\* removed, so a feedback submission for an earlier consultation is a second
\* record beside the first.
C16_NoDeduplication ==
    /\ [][/\ Len(collection') >= Len(collection)
          /\ Len(worksheet') >= Len(worksheet)
          /\ Len(outbox') >= Len(outbox)
          /\ \A i \in DOMAIN collection : collection'[i] = collection[i]
          /\ \A i \in DOMAIN worksheet : worksheet'[i] = worksheet[i]
          /\ \A i \in DOMAIN outbox : outbox'[i] = outbox[i]]_vars
    /\ [](/\ Len(collection) = Cardinality(C16_Served("firestore"))
          /\ Len(worksheet) = Cardinality(C16_Served("sheet"))
          /\ Len(outbox) = Cardinality(C16_Served("mail"))
          /\ (\A r \in Requests : req[r].pc = "done") =>
               /\ Len(collection) = received
               /\ Len(worksheet) = received
               /\ Len(outbox) = received)

\* C16 witness: a consultation and then a feedback submission of the same
\* user were both served: the collection holds the consultation's document
\* (rating 0) and, beside it, the feedback's document (rating 4), the sheet
\* two rows, the outbox two e-mails.
C16_Witness ==
    /\ \A r \in Requests : req[r].pc = "done"
    /\ req[1].endpoint = "recommend"
    /\ req[2].endpoint = "feedback"
    /\ Len(worksheet) >= 2
    /\ Len(outbox) >= 2
    /\ \E i, j \in DOMAIN collection :
         /\ i < j
         /\ collection[i].by = 1 /\ collection[i].doc["rating"] = "0"
         /\ collection[j].by = 2 /\ collection[j].doc["rating"] = "4"
         /\ collection[i].doc["user"] = collection[j].doc["user"]

-----------------------------------------------------------------------------
(* C17 *)

\* the text n occurs verbatim in line
C17_Occurs(n, line) ==
    \E k \in 0..(Len(line) - Len(n)) : SubSeq(line, k + 1, k + Len(n)) = n

\* line, without its surrounding white space, starts with an integer and "."
C17_Numbered(line) == AfterNumber(Strip(line))[1] = "rest"

\* ns can be assigned, in order, to distinct numbered lines of ls so that
\* each name occurs in its line
RECURSIVE C17_InLineOrder(_, _)
C17_InLineOrder(ns, ls) ==
    IF ns = <<>> THEN TRUE
    ELSE IF ls = <<>> THEN FALSE
    ELSE \/ /\ C17_Numbered(Head(ls))
            /\ C17_Occurs(Head(ns), Head(ls))
            /\ C17_InLineOrder(Tail(ns), Tail(ls))
         \/ C17_InLineOrder(ns, Tail(ls))

\* C17 as stated: every extracted name is a non-empty string that occurs
\* verbatim in a line of the text starting with an integer and ".", with at
\* most one name per such line, in line order.
C17_Original ==
    xpc = "extracted" =>
        /\ \A i \in DOMAIN names : names[i] # <<>>
        /\ C17_InLineOrder(names, Split(text))

====
